---- MODULE Spec2Model ----
(***************************************************************************)
(* Model of Code/Framework/AzCore/AzCore/Utils/ValidationUtils.h: the      *)
(* family of AZ::IsValid overloads.  The header owns no state; it observes *)
(* entities, components, assets, jobs, buses and contexts owned by the     *)
(* engine.  Those observed objects are the variables of the model, the     *)
(* engine's mutations of them are the environment actions, and every       *)
(* overload is an operator (verdict + the probes it performed) applied by  *)
(* a call action.                                                          *)
(***************************************************************************)
EXTENDS Integers, Sequences, FiniteSets, TLC

\* ---- bounds ------------------------------------------------------------
NumEntities == 1

\* ---- values ------------------------------------------------------------
NULL == 0

Entities == 1..NumEntities
\* the component and the job under observation
Components == {1}
Jobs == {1}

\* AZ::Entity::State, in the order of the entity lifecycle
EntityStates == <<"Constructed", "Init", "Activating", "Active", "Deactivating", "Destroyed">>

StateSet == {EntityStates[i] : i \in 1..Len(EntityStates)}

VARIABLES
    entState,         \* Entities -> reported AZ::Entity::State
    compEntity,       \* Components -> owning entity (NULL when detached)
    jobCancelled,     \* Jobs -> BOOLEAN, AZ::Job::IsCancelled()
    ctxReady,         \* AZ::SerializeContext::IsReady()
    assetReady,       \* AZ::Data::Asset<T>::IsReady()
    assetIdValid,     \* AZ::Data::Asset<T>::GetId().IsValid()
    busConnected,     \* AZ::EBus<T>::IsConnected()
    tickBusConnected, \* AZ::TickBus::IsConnected()
    outcomeSuccess,   \* AZ::Outcome<T, E>::IsSuccess()
    last,             \* the last completed IsValid call, NoCall after a mutation
    cpc,              \* interleaved IsValid(component): position of the evaluation
    cArg,             \* interleaved IsValid(component): the component argument
    cFirst,           \* result of the GetEntity() read used by the null check
    cSecond,          \* result of the GetEntity() read the state probe is applied to
    cRaced            \* a detach of cArg happened between the two GetEntity() reads

world == <<entState, compEntity, jobCancelled, ctxReady, assetReady, assetIdValid,
           busConnected, tickBusConnected, outcomeSuccess>>

conc == <<cpc, cArg, cFirst, cSecond, cRaced>>

vars == <<entState, compEntity, jobCancelled, ctxReady, assetReady, assetIdValid,
          busConnected, tickBusConnected, outcomeSuccess, last, cpc, cArg, cFirst,
          cSecond, cRaced>>

NoCall == [kind |-> "none"]

\* ---- static types of raw-pointer arguments -----------------------------
\* "Derived*" stands for a class publicly derived from the named engine type,
\* "Object" for any type unrelated to the engine types.
StaticTypes == {"Object", "Entity", "DerivedEntity", "Component", "DerivedComponent",
                "Job", "DerivedJob", "SerializeContext", "DerivedSerializeContext"}

Category(S) ==
    CASE S \in {"Entity", "DerivedEntity"} -> "Entity"
      [] S \in {"Component", "DerivedComponent"} -> "Component"
      [] S \in {"Job", "DerivedJob"} -> "Job"
      [] S \in {"SerializeContext", "DerivedSerializeContext"} -> "SerializeContext"
      [] OTHER -> "Object"

\* the objects a pointer whose pointee has category c can point to
Pointees(c) ==
    CASE c = "Entity" -> Entities
      [] c = "Component" -> Components
      [] c = "Job" -> Jobs
      [] OTHER -> {1}

PtrValues(S) == {NULL} \cup Pointees(Category(S))

Probe(op, on) == [op |-> op, on |-> on]

Result(v, ps) == [verdict |-> v, probes |-> ps]

\* The record of a completed call.  `again` tells that the call immediately
\* before it was the same overload on the same argument with no mutation of
\* the observed objects in between.
Call(kind, S, p, r) ==
    [kind |-> kind, arg |-> [elem |-> S, ptr |-> p], verdict |-> r.verdict,
     probes |-> r.probes,
     again |-> (last.kind = kind /\ last.arg = [elem |-> S, ptr |-> p])]

\* ---- overload resolution for a raw-pointer argument --------------------
\* Non-template overloads taking a pointer to an engine type.
NonTemplateOverloads == {"Job", "SerializeContext"}

\* Explicit specializations (template<>) of the generic pointer template.
ExplicitSpecializations == {"Entity", "Component"}

\* Conversion rank of binding a pointer to S to the parameter `const P*`:
\* 0 exact match (qualification adjustment only), 1 derived-to-base pointer
\* conversion, 2 not viable.
NonTemplateRank(P, S) ==
    IF S = P THEN 0 ELSE IF Category(S) = P THEN 1 ELSE 2

\* The generic template deduces T = S, so its parameter `const S*` is always
\* an exact match.
TemplateRank(S) == 0

\* The overload the call IsValid(p) selects when p has static type "pointer
\* to S".  A non-template function wins only when its conversion is no worse
\* than the template's; otherwise the template is instantiated with T = S and
\* an explicit specialization is used only when it was declared for exactly
\* that T.
Select(S) ==
    IF \E P \in NonTemplateOverloads : NonTemplateRank(P, S) <= TemplateRank(S)
    THEN CHOOSE P \in NonTemplateOverloads : NonTemplateRank(P, S) <= TemplateRank(S)
    ELSE IF S \in ExplicitSpecializations THEN S ELSE "Generic"

\* ---- the predicates ----------------------------------------------------
\* Each returns the verdict and the sequence of probes performed on the
\* observed objects, in evaluation order (&& short-circuits).

\* template<typename T> IsValid(const T* object)
IsValid_T(object) == Result(object /= NULL, <<>>)

\* variant: the state test accepts the transitional Activating state as well
IsValid_Entity_Activating(entity) ==
    IF entity = NULL
    THEN Result(FALSE, <<>>)
    ELSE Result(entState[entity] \in {"Activating", "Active"}, <<Probe("GetState", entity)>>)

\* template<> IsValid(const AZ::Entity* entity)
IsValid_Entity(entity) ==
    IF entity = NULL
    THEN Result(FALSE, <<>>)
    ELSE Result(entState[entity] = "Active", <<Probe("GetState", entity)>>)

\* variant: the owning entity's state is not tested
IsValid_Component_NoState(component) ==
    IF component = NULL
    THEN Result(FALSE, <<>>)
    ELSE Result(compEntity[component] /= NULL, <<Probe("GetEntity", component)>>)

\* template<> IsValid(const AZ::Component* component), evaluated with no
\* interleaved mutation: both GetEntity() calls return the same pointer.
IsValid_Component(component) ==
    IF component = NULL
    THEN Result(FALSE, <<>>)
    ELSE IF compEntity[component] = NULL
         THEN Result(FALSE, <<Probe("GetEntity", component)>>)
         ELSE Result(entState[compEntity[component]] = "Active",
                     <<Probe("GetEntity", component), Probe("GetEntity", component),
                       Probe("GetState", compEntity[component])>>)

\* variant: the identifier is not tested
IsValid_Asset_ReadyOnly(asset) == Result(assetReady, <<Probe("IsReady", asset)>>)

\* template<typename T> IsValid(const AZ::Data::Asset<T>& asset)
IsValid_Asset(asset) ==
    IF ~assetReady
    THEN Result(FALSE, <<Probe("IsReady", asset)>>)
    ELSE Result(assetIdValid, <<Probe("IsReady", asset), Probe("GetId", asset)>>)

\* template<typename T> IsValid(const AZ::RHI::Ptr<T>& ptr)
IsValid_RHI_Ptr(ptr) == Result(ptr /= NULL, <<>>)

\* template<typename T> IsValid(const AZ::RPI::Ptr<T>& ptr)
IsValid_RPI_Ptr(ptr) == Result(ptr /= NULL, <<>>)

\* IsValid(const AZ::RPI::ViewPtr& ptr)
IsValid_ViewPtr(ptr) == Result(ptr /= NULL, <<>>)

\* variant: the comparison is inverted
IsValid_ScenePtr_Inverted(ptr) == Result(ptr = NULL, <<>>)

\* IsValid(const AZ::RPI::ScenePtr& ptr)
IsValid_ScenePtr(ptr) == Result(ptr /= NULL, <<>>)

\* IsValid(const AZ::RPI::RenderPipelinePtr& ptr)
IsValid_RenderPipelinePtr(ptr) == Result(ptr /= NULL, <<>>)

\* IsValid(const AZ::RHI::ShaderResourceGroupPtr& ptr)
IsValid_ShaderResourceGroupPtr(ptr) == Result(ptr /= NULL, <<>>)

\* IsValid(const AZ::RHI::PipelineStatePtr& ptr)
IsValid_PipelineStatePtr(ptr) == Result(ptr /= NULL, <<>>)

\* template<typename T> IsValid(const AZ::Data::Instance<T>& instance)
IsValid_Instance(instance) == Result(instance /= NULL, <<>>)

\* template<typename T, typename E> IsValid(const AZ::Outcome<T, E>& outcome)
IsValid_Outcome(outcome) == Result(outcomeSuccess, <<Probe("IsSuccess", outcome)>>)

\* variant: the cancellation flag is not negated
IsValid_Job_Cancelled(job) ==
    IF job = NULL
    THEN Result(FALSE, <<>>)
    ELSE Result(jobCancelled[job], <<Probe("IsCancelled", job)>>)

\* IsValid(const AZ::Job* job)
IsValid_Job(job) ==
    IF job = NULL
    THEN Result(FALSE, <<>>)
    ELSE Result(~jobCancelled[job], <<Probe("IsCancelled", job)>>)

\* template<typename T> IsValid(const AZ::EBus<T>& bus)
IsValid_EBus(bus) == Result(busConnected, <<Probe("IsConnected", bus)>>)

\* variant: both operands are evaluated (`&` in place of `&&`)
IsValid_SerializeContext_Eager(context) ==
    Result(context /= NULL /\ ctxReady, <<Probe("IsReady", context)>>)

\* IsValid(const AZ::SerializeContext* context)
IsValid_SerializeContext(context) ==
    IF context = NULL
    THEN Result(FALSE, <<>>)
    ELSE Result(ctxReady, <<Probe("IsReady", context)>>)

\* IsValid(const AZ::TickBus& tickBus)
IsValid_TickBus(tickBus) == Result(tickBusConnected, <<Probe("IsConnected", tickBus)>>)

\* The call IsValid(p) for a raw pointer p of static type "pointer to S".
IsValid_pointer(S, p) ==
    CASE Select(S) = "Entity" -> IsValid_Entity(p)
      [] Select(S) = "Component" -> IsValid_Component(p)
      [] Select(S) = "Job" -> IsValid_Job(p)
      [] Select(S) = "SerializeContext" -> IsValid_SerializeContext(p)
      [] OTHER -> IsValid_T(p)

\* variant: the handle forwards to the predicate of the pointer it stores
IsValid_shared_ptr_Transitive(smartPtr) == IsValid_pointer(smartPtr.elem, smartPtr.ptr)

\* An owning handle is the pair of its element type and the stored pointer.
\* template<typename T> IsValid(const AZStd::shared_ptr<T>& smartPtr)
IsValid_shared_ptr(smartPtr) == Result(smartPtr.ptr /= NULL, <<>>)

\* template<typename T> IsValid(const AZStd::unique_ptr<T>& uniquePtr)
IsValid_unique_ptr(uniquePtr) == Result(uniquePtr.ptr /= NULL, <<>>)

\* ---- calls ---------------------------------------------------------------
\* A call evaluates one overload on an argument and records the outcome.
\* The caller asks a question of a fresh observation, or asks the question it
\* has just asked once more.  (A call changes nothing but `last`, so a call
\* that follows a different call reaches the state the same call reaches from
\* the fresh observation.)
Asks(kind, S, p) ==
    /\ cpc = "idle"
    /\ \/ last = NoCall
       \/ (last.kind = kind /\ last.arg = [elem |-> S, ptr |-> p])

Call_T ==
    \E S \in StaticTypes : \E p \in PtrValues(S) :
        /\ Asks("Generic", S, p)
        /\ Select(S) = "Generic"
        /\ last' = Call("Generic", S, p, IsValid_T(p))
        /\ UNCHANGED <<world, conc>>

Call_Entity ==
    \E S \in StaticTypes : \E p \in PtrValues(S) :
        /\ Asks("Entity", S, p)
        /\ Select(S) = "Entity"
        /\ last' = Call("Entity", S, p, IsValid_Entity(p))
        /\ UNCHANGED <<world, conc>>

Call_Component ==
    \E S \in StaticTypes : \E p \in PtrValues(S) :
        /\ Asks("Component", S, p)
        /\ Select(S) = "Component"
        /\ last' = Call("Component", S, p, IsValid_Component(p))
        /\ UNCHANGED <<world, conc>>

\* variant: the evaluation mutates the job it inspects
Call_Job_Cancels ==
    \E S \in StaticTypes : \E p \in PtrValues(S) :
        /\ Asks("Job", S, p)
        /\ Select(S) = "Job"
        /\ last' = Call("Job", S, p, IsValid_Job(p))
        /\ jobCancelled' = [j \in Jobs |-> jobCancelled[j] \/ j = p]
        /\ UNCHANGED <<entState, compEntity, ctxReady, assetReady, assetIdValid,
                       busConnected, tickBusConnected, outcomeSuccess, conc>>

Call_Job ==
    \E S \in StaticTypes : \E p \in PtrValues(S) :
        /\ Asks("Job", S, p)
        /\ Select(S) = "Job"
        /\ last' = Call("Job", S, p, IsValid_Job(p))
        /\ UNCHANGED <<world, conc>>

Call_SerializeContext ==
    \E S \in StaticTypes : \E p \in PtrValues(S) :
        /\ Asks("SerializeContext", S, p)
        /\ Select(S) = "SerializeContext"
        /\ last' = Call("SerializeContext", S, p, IsValid_SerializeContext(p))
        /\ UNCHANGED <<world, conc>>

\* element types the owning handles are instantiated with
SmartElems == {"Entity", "Job"}

Call_shared_ptr ==
    \E T \in SmartElems : \E p \in PtrValues(T) :
        /\ Asks("shared_ptr", T, p)
        /\ last' = Call("shared_ptr", T, p, IsValid_shared_ptr([elem |-> T, ptr |-> p]))
        /\ UNCHANGED <<world, conc>>

Call_unique_ptr ==
    \E T \in SmartElems : \E p \in PtrValues(T) :
        /\ Asks("unique_ptr", T, p)
        /\ last' = Call("unique_ptr", T, p, IsValid_unique_ptr([elem |-> T, ptr |-> p]))
        /\ UNCHANGED <<world, conc>>

Call_RHI_Ptr ==
    \E p \in {NULL, 1} :
        /\ Asks("RHI_Ptr", "Buffer", p)
        /\ last' = Call("RHI_Ptr", "Buffer", p, IsValid_RHI_Ptr(p))
        /\ UNCHANGED <<world, conc>>

Call_RPI_Ptr ==
    \E p \in {NULL, 1} :
        /\ Asks("RPI_Ptr", "Pass", p)
        /\ last' = Call("RPI_Ptr", "Pass", p, IsValid_RPI_Ptr(p))
        /\ UNCHANGED <<world, conc>>

Call_ViewPtr ==
    \E p \in {NULL, 1} :
        /\ Asks("ViewPtr", "View", p)
        /\ last' = Call("ViewPtr", "View", p, IsValid_ViewPtr(p))
        /\ UNCHANGED <<world, conc>>

Call_ScenePtr ==
    \E p \in {NULL, 1} :
        /\ Asks("ScenePtr", "Scene", p)
        /\ last' = Call("ScenePtr", "Scene", p, IsValid_ScenePtr(p))
        /\ UNCHANGED <<world, conc>>

Call_RenderPipelinePtr ==
    \E p \in {NULL, 1} :
        /\ Asks("RenderPipelinePtr", "RenderPipeline", p)
        /\ last' = Call("RenderPipelinePtr", "RenderPipeline", p, IsValid_RenderPipelinePtr(p))
        /\ UNCHANGED <<world, conc>>

Call_ShaderResourceGroupPtr ==
    \E p \in {NULL, 1} :
        /\ Asks("ShaderResourceGroupPtr", "ShaderResourceGroup", p)
        /\ last' = Call("ShaderResourceGroupPtr", "ShaderResourceGroup", p, IsValid_ShaderResourceGroupPtr(p))
        /\ UNCHANGED <<world, conc>>

Call_PipelineStatePtr ==
    \E p \in {NULL, 1} :
        /\ Asks("PipelineStatePtr", "PipelineState", p)
        /\ last' = Call("PipelineStatePtr", "PipelineState", p, IsValid_PipelineStatePtr(p))
        /\ UNCHANGED <<world, conc>>

Call_Instance ==
    \E p \in {NULL, 1} :
        /\ Asks("Instance", "Image", p)
        /\ last' = Call("Instance", "Image", p, IsValid_Instance(p))
        /\ UNCHANGED <<world, conc>>

Call_Asset ==
    /\ Asks("Asset", "Asset", 1)
    /\ last' = Call("Asset", "Asset", 1, IsValid_Asset(1))
    /\ UNCHANGED <<world, conc>>

Call_Outcome ==
    /\ Asks("Outcome", "Outcome", 1)
    /\ last' = Call("Outcome", "Outcome", 1, IsValid_Outcome(1))
    /\ UNCHANGED <<world, conc>>

Call_EBus ==
    /\ Asks("EBus", "EBus", 1)
    /\ last' = Call("EBus", "EBus", 1, IsValid_EBus(1))
    /\ UNCHANGED <<world, conc>>

Call_TickBus ==
    /\ Asks("TickBus", "TickBus", 1)
    /\ last' = Call("TickBus", "TickBus", 1, IsValid_TickBus(1))
    /\ UNCHANGED <<world, conc>>

\* ---- the engine: mutations of the observed objects ----------------------
NextState(st) ==
    CASE st = "Constructed" -> "Init"
      [] st = "Init" -> "Activating"
      [] st = "Activating" -> "Active"
      [] st = "Active" -> "Deactivating"
      [] OTHER -> "Destroyed"

\* entity lifecycle: Constructed -> Init -> Activating -> Active ->
\* Deactivating -> Destroyed
AdvanceEntity ==
    \E e \in Entities :
        /\ entState[e] /= "Destroyed"
        /\ entState' = [entState EXCEPT ![e] = NextState(entState[e])]
        /\ last' = NoCall
        /\ UNCHANGED <<compEntity, jobCancelled, ctxReady, assetReady, assetIdValid,
                       busConnected, tickBusConnected, outcomeSuccess, conc>>

\* a detached component is added to an entity
AttachComponent ==
    \E c \in Components, e \in Entities :
        /\ compEntity[c] = NULL
        /\ compEntity' = [compEntity EXCEPT ![c] = e]
        /\ last' = NoCall
        /\ UNCHANGED <<entState, jobCancelled, ctxReady, assetReady, assetIdValid,
                       busConnected, tickBusConnected, outcomeSuccess, conc>>

\* a component is removed from its entity; GetEntity() returns null afterwards
DetachComponent ==
    \E c \in Components :
        /\ compEntity[c] /= NULL
        /\ compEntity' = [compEntity EXCEPT ![c] = NULL]
        /\ cRaced' = (cRaced \/ (cpc = "checked" /\ cArg = c))
        /\ last' = NoCall
        /\ UNCHANGED <<entState, jobCancelled, ctxReady, assetReady, assetIdValid,
                       busConnected, tickBusConnected, outcomeSuccess, cpc, cArg,
                       cFirst, cSecond>>

\* a job is cancelled, or reset for reuse
SetJobCancelled ==
    \E j \in Jobs, b \in BOOLEAN :
        /\ jobCancelled[j] /= b
        /\ jobCancelled' = [jobCancelled EXCEPT ![j] = b]
        /\ last' = NoCall
        /\ UNCHANGED <<entState, compEntity, ctxReady, assetReady, assetIdValid,
                       busConnected, tickBusConnected, outcomeSuccess, conc>>

SetContextReady ==
    /\ ctxReady' = ~ctxReady
    /\ last' = NoCall
    /\ UNCHANGED <<entState, compEntity, jobCancelled, assetReady, assetIdValid,
                   busConnected, tickBusConnected, outcomeSuccess, conc>>

\* the asset system latches or clears readiness
SetAssetReady ==
    /\ assetReady' = ~assetReady
    /\ last' = NoCall
    /\ UNCHANGED <<entState, compEntity, jobCancelled, ctxReady, assetIdValid,
                   busConnected, tickBusConnected, outcomeSuccess, conc>>

\* the asset handle is bound to, or released from, an asset id
SetAssetId ==
    /\ assetIdValid' = ~assetIdValid
    /\ last' = NoCall
    /\ UNCHANGED <<entState, compEntity, jobCancelled, ctxReady, assetReady,
                   busConnected, tickBusConnected, outcomeSuccess, conc>>

\* explicit connect / disconnect of a bus handler
SetBusConnected ==
    /\ busConnected' = ~busConnected
    /\ last' = NoCall
    /\ UNCHANGED <<entState, compEntity, jobCancelled, ctxReady, assetReady,
                   assetIdValid, tickBusConnected, outcomeSuccess, conc>>

SetTickBusConnected ==
    /\ tickBusConnected' = ~tickBusConnected
    /\ last' = NoCall
    /\ UNCHANGED <<entState, compEntity, jobCancelled, ctxReady, assetReady,
                   assetIdValid, busConnected, outcomeSuccess, conc>>

\* the outcome object is assigned a success or a failure
SetOutcome ==
    /\ outcomeSuccess' = ~outcomeSuccess
    /\ last' = NoCall
    /\ UNCHANGED <<entState, compEntity, jobCancelled, ctxReady, assetReady,
                   assetIdValid, busConnected, tickBusConnected, conc>>

\* ---- IsValid(component) with the engine running on another executor ------
\* `component && component->GetEntity() && component->GetEntity()->GetState()
\* == Active` performs two separate GetEntity() reads and one GetState()
\* read; the engine may act between any two of them.

\* `component &&`: a null argument returns false at once
Comp_Begin ==
    \E c \in PtrValues("Component") :
        /\ cpc = "idle"
        /\ IF c = NULL
           THEN /\ last' = Call("Component", "Component", c, Result(FALSE, <<>>))
                /\ UNCHANGED conc
           ELSE /\ cpc' = "entered"
                /\ cArg' = c
                /\ cFirst' = NULL
                /\ cSecond' = NULL
                /\ cRaced' = FALSE
                /\ last' = NoCall
        /\ UNCHANGED world

\* variant: the result of the first read is not tested
Comp_NullCheck_Unchecked ==
    /\ cpc = "entered"
    /\ cFirst' = compEntity[cArg]
    /\ cpc' = "checked"
    /\ last' = NoCall
    /\ UNCHANGED <<world, cArg, cSecond, cRaced>>

\* `component->GetEntity() &&`: first read, the null check
Comp_NullCheck ==
    /\ cpc = "entered"
    /\ cFirst' = compEntity[cArg]
    /\ IF compEntity[cArg] = NULL
       THEN /\ cpc' = "idle"
            /\ last' = Call("Component", "Component", cArg,
                            Result(FALSE, <<Probe("GetEntity", cArg)>>))
       ELSE /\ cpc' = "checked"
            /\ last' = NoCall
    /\ UNCHANGED <<world, cArg, cSecond, cRaced>>

\* `component->GetEntity()->`: second read.  The read races with the
\* engine's write, so the build may reload the field or reuse the value of
\* the first read.
Comp_Reread ==
    /\ cpc = "checked"
    /\ \E r \in {compEntity[cArg], cFirst} : cSecond' = r
    /\ cpc' = "reread"
    /\ last' = NoCall
    /\ UNCHANGED <<world, cArg, cFirst, cRaced>>

\* `->GetState() == Active`: the state probe on the second read's result.
\* On a null pointer the behaviour is undefined: any verdict may come out.
Comp_Probe ==
    /\ cpc = "reread"
    /\ \E v \in BOOLEAN :
        /\ cSecond /= NULL => v = (entState[cSecond] = "Active")
        /\ last' = Call("Component", "Component", cArg,
                        Result(v, <<Probe("GetEntity", cArg), Probe("GetEntity", cArg),
                                    Probe("GetState", cSecond)>>))
    /\ cpc' = "idle"
    /\ UNCHANGED <<world, cArg, cFirst, cSecond, cRaced>>

\* ---- specifications -------------------------------------------------------
Init ==
    /\ entState = [e \in Entities |-> "Constructed"]
    /\ compEntity = [c \in Components |-> NULL]
    /\ jobCancelled = [j \in Jobs |-> FALSE]
    /\ ctxReady = FALSE
    /\ assetReady = FALSE
    /\ assetIdValid = FALSE
    /\ busConnected = FALSE
    /\ tickBusConnected = FALSE
    /\ outcomeSuccess = FALSE
    /\ last = NoCall
    /\ cpc = "idle"
    /\ cArg = NULL
    /\ cFirst = NULL
    /\ cSecond = NULL
    /\ cRaced = FALSE

Calls ==
    \/ Call_T \/ Call_shared_ptr \/ Call_unique_ptr \/ Call_Entity \/ Call_Component
    \/ Call_Asset \/ Call_RHI_Ptr \/ Call_RPI_Ptr \/ Call_ViewPtr \/ Call_ScenePtr
    \/ Call_RenderPipelinePtr \/ Call_ShaderResourceGroupPtr \/ Call_PipelineStatePtr
    \/ Call_Instance \/ Call_Outcome \/ Call_Job \/ Call_EBus \/ Call_SerializeContext
    \/ Call_TickBus

Engine ==
    \/ AdvanceEntity \/ AttachComponent \/ DetachComponent \/ SetJobCancelled
    \/ SetContextReady \/ SetAssetReady \/ SetAssetId \/ SetBusConnected
    \/ SetTickBusConnected \/ SetOutcome

\* every call runs to completion before the engine acts again
Next == Calls \/ Engine

Spec == Init /\ [][Next]_vars

\* the engine acts between the reads of one IsValid(component) evaluation
NextConc ==
    \/ Comp_Begin \/ Comp_NullCheck \/ Comp_Reread \/ Comp_Probe
    \/ AdvanceEntity \/ AttachComponent \/ DetachComponent

SpecConc == Init /\ [][NextConc]_vars

\* ---- properties -----------------------------------------------------------
Called == last.kind /= "none"

\* the call was IsValid(p) on a raw pointer p
RawKinds == {"Generic", "Entity", "Component", "Job", "SerializeContext"}

IsRaw == Called /\ last.kind \in RawKinds

HasProbe(op) == \E i \in 1..Len(last.probes) : last.probes[i].op = op

\* C1: for a non-null entity pointer, in every state of the lifecycle, the
\* verdict is true exactly when the entity's reported state is Active.
C1_EntityActiveIff ==
    (IsRaw /\ last.arg.elem = "Entity" /\ last.arg.ptr /= NULL)
        => (last.verdict <=> entState[last.arg.ptr] = "Active")

C1_Witness ==
    /\ IsRaw /\ last.arg.elem = "Entity" /\ last.arg.ptr /= NULL
    /\ entState[last.arg.ptr] = "Active"
    /\ last.verdict

\* C2: for a non-null component pointer, a null owning entity gives false
\* with no entity-state probe; otherwise the verdict is that of the entity
\* predicate on the owning entity (true iff that entity is Active).
C2_ComponentFollowsEntity ==
    (IsRaw /\ last.arg.elem = "Component" /\ last.arg.ptr /= NULL)
        => IF compEntity[last.arg.ptr] = NULL
           THEN ~last.verdict /\ ~HasProbe("GetState")
           ELSE /\ last.verdict = IsValid_pointer("Entity", compEntity[last.arg.ptr]).verdict
                /\ last.verdict <=> entState[compEntity[last.arg.ptr]] = "Active"

C2_Witness ==
    /\ IsRaw /\ last.arg.elem = "Component" /\ last.arg.ptr /= NULL
    /\ compEntity[last.arg.ptr] /= NULL
    /\ entState[compEntity[last.arg.ptr]] = "Active"
    /\ last.verdict

\* C3: the asset verdict is true iff the readiness flag is set and the
\* identifier is valid, in all four combinations of the two.
C3_AssetReadyAndId ==
    (Called /\ last.kind = "Asset") => (last.verdict <=> (assetReady /\ assetIdValid))

C3_Witness ==
    /\ Called /\ last.kind = "Asset"
    /\ assetReady /\ ~assetIdValid
    /\ ~last.verdict

\* C4: the job verdict is true iff the pointer is non-null and the job's
\* cancellation flag is false; while the flag is true every call returns false.
C4_JobNotCancelled ==
    (IsRaw /\ last.arg.elem = "Job")
        => (last.verdict <=> (last.arg.ptr /= NULL /\ ~jobCancelled[last.arg.ptr]))

C4_Witness ==
    /\ IsRaw /\ last.arg.elem = "Job" /\ last.arg.ptr /= NULL
    /\ jobCancelled[last.arg.ptr]
    /\ ~last.verdict

\* C5: in the entity, component, serialization-context and job predicates no
\* probe is applied to a null pointer: a null argument is probed not at all,
\* and the entity-state probe is never applied to a null owning entity.
C5_NoProbeOnNull ==
    (Called /\ last.kind \in {"Entity", "Component", "Job", "SerializeContext"})
        => /\ last.arg.ptr = NULL => last.probes = <<>>
           /\ \A i \in 1..Len(last.probes) : last.probes[i].on /= NULL

C5_Witness ==
    /\ Called /\ last.kind = "SerializeContext"
    /\ last.arg.ptr = NULL
    /\ ctxReady
    /\ last.probes = <<>>

\* the handle categories that have an empty/null state
NullableKinds ==
    {"Generic", "shared_ptr", "unique_ptr", "Entity", "Component", "Job",
     "SerializeContext", "RHI_Ptr", "RPI_Ptr", "ViewPtr", "ScenePtr",
     "RenderPipelinePtr", "ShaderResourceGroupPtr", "PipelineStatePtr", "Instance"}

\* C6: a handle in the empty/null state is never valid, whatever the state of
\* the other objects.
C6_NullIsInvalid ==
    (Called /\ last.kind \in NullableKinds /\ last.arg.ptr = NULL) => ~last.verdict

C6_Witness ==
    /\ Called /\ last.kind = "ScenePtr" /\ last.arg.ptr = NULL
    /\ ~last.verdict
    /\ \E e \in Entities : entState[e] = "Active"

\* C7: a call leaves every observed object unchanged, and a call that repeats
\* the previous one with no mutation in between returns the same verdict.
C7_Pure ==
    [][(last' /= NoCall)
        => /\ world' = world
           /\ last'.again => last'.verdict = last.verdict]_vars

C7_Witness ==
    /\ Called /\ last.kind = "Job" /\ last.arg.ptr /= NULL
    /\ last.again
    /\ last.verdict

\* the pointee is not usable: an entity that is not Active, a cancelled job
Unusable(T, p) ==
    CASE T = "Entity" -> entState[p] /= "Active"
      [] T = "Job" -> jobCancelled[p]
      [] OTHER -> FALSE

\* C8: an owning handle is valid exactly when it holds a pointer, and its
\* verdict differs from that of the raw pointer it holds exactly when it holds
\* an entity that is not Active or a job that is cancelled.
C8_OwningHandleNotTransitive ==
    (Called /\ last.kind \in {"shared_ptr", "unique_ptr"})
        => /\ last.verdict <=> last.arg.ptr /= NULL
           /\ (last.verdict /= IsValid_pointer(last.arg.elem, last.arg.ptr).verdict)
                <=> (last.arg.ptr /= NULL /\ Unusable(last.arg.elem, last.arg.ptr))

C8_Witness ==
    /\ Called /\ last.kind = "shared_ptr"
    /\ last.arg.elem = "Entity" /\ last.arg.ptr /= NULL
    /\ entState[last.arg.ptr] = "Deactivating"
    /\ last.verdict

\* an IsValid(component) evaluation that went as far as the entity-state probe
ProbedEntityState == Called /\ last.kind = "Component" /\ HasProbe("GetState")

\* C9 (as stated): with the engine detaching components between the reads of
\* one IsValid(component) evaluation, the entity whose state is probed is the
\* non-null entity that passed the null check.
C9_ProbedIsChecked ==
    ProbedEntityState => (cSecond /= NULL /\ cSecond = cFirst)

\* C9 (amended): the state probe is applied to the result of a second
\* GetEntity() read; it is the non-null entity that passed the null check
\* whenever the component was not detached between the two reads, and it is
\* null only when such a detach happened.
C9_ProbedIsCheckedUnlessRaced ==
    ProbedEntityState
        => /\ ~cRaced => (cSecond /= NULL /\ cSecond = cFirst)
           /\ cSecond = NULL => cRaced
           /\ cFirst /= NULL

C9_Witness ==
    /\ ProbedEntityState
    /\ ~cRaced
    /\ cSecond /= NULL /\ cSecond = cFirst
    /\ compEntity[cArg] = NULL

\* the verdict contract of the data-model table, by category of the pointee
Contract(S, p) ==
    CASE Category(S) = "Entity" -> p /= NULL /\ entState[p] = "Active"
      [] Category(S) = "Component" ->
            p /= NULL /\ compEntity[p] /= NULL /\ entState[compEntity[p]] = "Active"
      [] Category(S) = "Job" -> p /= NULL /\ ~jobCancelled[p]
      [] Category(S) = "SerializeContext" -> p /= NULL /\ ctxReady
      [] OTHER -> p /= NULL

\* C10: for a raw pointer of any static type, derived types included, the
\* verdict is the one the data-model table gives for the pointee's category.
C10_DispatchMatchesTable ==
    IsRaw => (last.verdict <=> Contract(last.arg.elem, last.arg.ptr))

====
